---- MODULE Spec2Model ----
(***************************************************************************)
(* State-machine model of the URL shortener: the Postgres table            *)
(* short_urls, the Redis keyspace, ShortenerService.shorten_url and        *)
(* resolve_short_code, the RedisClient visit-counter helpers and the       *)
(* flush_visits cron job.  Every call to Postgres or Redis is one atomic   *)
(* step; a call either succeeds or raises (OperationalError / RedisError). *)
(***************************************************************************)
EXTENDS Integers, Sequences, FiniteSets, TLC

\* ------------------------------------------------------------------ bounds
\* config.SHORT_CODE_MAX_RETRIES (default 10), kept small for checking.
MaxRetries == 2
\* Visit increments applied to the counters of the codes along a behaviour.
MaxIncrements == 2
\* DECRBY calls that fail along a behaviour (each one leaves a flushed
\* amount in the cache, so the Store's visits grow with every such failure).
MaxDecrFailures == 1
\* SCAN calls of one get_all_visit_keys.
MaxScanPages == 2
\* maxconn of the SimpleConnectionPool (20 in get_pool), kept small.
MaxConn == 2
\* The largest amount and delta of a directly called helper.
MaxAmount == 2
\* The visits a record can reach through directly called bulk increments.
MaxVisits == 2

\* ------------------------------------------------------------- small sets
Urls == {"u1", "u2"}
\* The codes generate_short_code can return (all of one fixed length).
Codes == {"a", "b"}
\* The argument of the visit-counter helpers: a code, or the empty string
\* (which makes the key "visits:").
VisitArgs == Codes \cup {""}
ShortenProcs == {"s1", "s2"}
ResolveProcs == {"r1"}
FlushProcs == {"f1"}
\* The cron processes when a second run is started before the first ended.
OverlappingFlushProcs == {"f1", "f2"}
\* Request threads and cron processes calling PostgresDB methods.
ConnThreads == {"t1", "t2", "t3"}

Nil == "None"

\* A Redis key is <<prefix, rest>>: f"short:{code}", f"url:{url}",
\* f"visits:{code}".
ShortKey(c) == <<"short:", c>>
UrlKey(u) == <<"url:", u>>
VisitsKey(c) == <<"visits:", c>>
MappingKeys == {ShortKey(c) : c \in Codes} \cup {UrlKey(u) : u \in Urls}
VisitKeys == {VisitsKey(c) : c \in VisitArgs}
Keys == MappingKeys \cup VisitKeys

VARIABLES
    short_urls,   \* the rows of table short_urls
    redis,        \* the Redis keyspace: a function on the keys present
    shortener,    \* the shorten_url call of each request thread
    resolver,     \* the resolve_short_code call of each request thread
    flush,        \* the flush_visits.main run of each cron process
    returned,     \* history: <<code, url>> of every shorten_url that returned
    total_incs,   \* history: INCRBY amount applied so far, per visit argument
    decr_fails,   \* history: number of DECRBY calls that raised
    last_abort,   \* history: the <<code, count>> of the run that last aborted
    checked_out,  \* connections of the pool handed out by getconn
    direct        \* the PostgresDB / RedisClient method called directly last

vars == <<short_urls, redis, shortener, resolver, flush, returned,
          total_incs, decr_fails, last_abort, checked_out, direct>>

\* ------------------------------------------------------- the Store (db.py)
Row(c, u, v) == [short_code |-> c, original_url |-> u, visits |-> v]

\* The unique constraint of column short_code, as the INSERT checks it.
NoUniqueCheck(rows, c) == FALSE
UniqueViolation(rows, c) == \E r \in rows : r.short_code = c

\* INSERT INTO short_urls (short_code, original_url): visits defaults to 0.
insert_short_url_counted(rows, c, u) == rows \cup {Row(c, u, 1)}
insert_short_url(rows, c, u) == rows \cup {Row(c, u, 0)}

\* SELECT original_url FROM short_urls WHERE original_url = %s; bool(row).
original_url_exists_by_code(rows, u) == \E r \in rows : r.short_code = u
original_url_exists(rows, u) == \E r \in rows : r.original_url = u

\* SELECT original_url FROM short_urls WHERE short_code = %s; fetchone().
\* The table after that SELECT: as before it.
CountVisitInTable(rows, c) ==
    {IF r.short_code = c THEN [r EXCEPT !.visits = @ + 1] ELSE r : r \in rows}
TableAfterSelect(rows, c) == rows

get_original_url_by_url(rows, c) ==
    IF rows = {} THEN Nil ELSE (CHOOSE r \in rows : TRUE).original_url
get_original_url(rows, c) ==
    IF \E r \in rows : r.short_code = c
    THEN (CHOOSE r \in rows : r.short_code = c).original_url
    ELSE Nil

\* ------------------------------------------------ the cache (cache.py)
\* client.get(key): None when the key is absent.
Present(kv, key) == key \in DOMAIN kv
\* `if cached:` on the value of client.get: None and "" are false.
NeverTruthy(kv, key) == FALSE
Truthy(kv, key) == Present(kv, key) /\ kv[key] # ""

\* client.setex(name=key, time=ttl, value=value)
setex_dropped(kv, key, value) == kv
setex(kv, key, value) ==
    [k \in DOMAIN kv \cup {key} |-> IF k = key THEN value ELSE kv[k]]

\* get_visit_count: 0 when the key is absent, else int(value).
get_visit_count(kv, c) ==
    IF Present(kv, VisitsKey(c)) THEN kv[VisitsKey(c)] ELSE 0

\* INCRBY / DECRBY: an absent key counts as 0.
incrby(kv, key, amount) ==
    setex(kv, key, (IF Present(kv, key) THEN kv[key] ELSE 0) + amount)
decrby_short(kv, key, amount) ==
    setex(kv, key, (IF Present(kv, key) THEN kv[key] ELSE 0) - (amount - 1))
decrby(kv, key, amount) ==
    setex(kv, key, (IF Present(kv, key) THEN kv[key] ELSE 0) - amount)
delete(kv, key) == [k \in DOMAIN kv \ {key} |-> kv[k]]

\* `if new_count <= 0:` of decrement_visit_count: the key is to be deleted.
BelowZero(new_count) == new_count < 0
ReachedZero(new_count) == new_count <= 0

\* What get_visit_count returns: None after a RedisError, else the count.
ReturnZeroOnRedisError == [none |-> FALSE, value |-> 0]
ReturnOnRedisError == [none |-> TRUE, value |-> 0]
ReturnCount(count) == [none |-> FALSE, value |-> count]

\* UPDATE short_urls SET visits = s.visits + v.count FROM (VALUES ...) v
\* WHERE s.short_code = v.short_code, for visit_data a sequence of
\* <<short_code, count>>; nothing is done for an empty visit_data.
DictKeys(d) == {d[n][1] : n \in 1..Len(d)}
DictGet(d, k) == (CHOOSE n \in 1..Len(d) : d[n][1] = k)
\* d[k] = v of a Python dict: a present key keeps its place.
DictSet(d, k, v) ==
    IF k \in DictKeys(d)
    THEN [n \in 1..Len(d) |-> IF d[n][1] = k THEN <<k, v>> ELSE d[n]]
    ELSE Append(d, <<k, v>>)

\* `if not visit_data: return`, before a connection is asked for.
AlwaysWrite(visit_data) == FALSE
NothingToWrite(visit_data) == visit_data = <<>>

increment_visits_bulk_minus(rows, visit_data) ==
    {IF r.short_code \in DictKeys(visit_data)
     THEN [r EXCEPT !.visits = @ - visit_data[DictGet(visit_data, r.short_code)][2]]
     ELSE r : r \in rows}
increment_visits_bulk_upsert(rows, visit_data) ==
    {IF r.short_code \in DictKeys(visit_data)
     THEN [r EXCEPT !.visits = @ + visit_data[DictGet(visit_data, r.short_code)][2]]
     ELSE r : r \in rows}
    \cup {[short_code |-> visit_data[n][1], original_url |-> "",
           visits |-> visit_data[n][2]] :
              n \in {m \in 1..Len(visit_data) :
                        \A r \in rows : r.short_code # visit_data[m][1]}}
increment_visits_bulk_set(rows, visit_data) ==
    {IF r.short_code \in DictKeys(visit_data)
     THEN [r EXCEPT !.visits = visit_data[DictGet(visit_data, r.short_code)][2]]
     ELSE r : r \in rows}
increment_visits_bulk_only(rows, visit_data) ==
    {[r EXCEPT !.visits = @ + visit_data[DictGet(visit_data, r.short_code)][2]] :
        r \in {q \in rows : q.short_code \in DictKeys(visit_data)}}
increment_visits_bulk_first(rows, visit_data) ==
    {IF visit_data # <<>> /\ r.short_code = visit_data[1][1]
     THEN [r EXCEPT !.visits = @ + visit_data[1][2]]
     ELSE r : r \in rows}
increment_visits_bulk(rows, visit_data) ==
    IF visit_data = <<>> THEN rows
    ELSE {IF r.short_code \in DictKeys(visit_data)
          THEN [r EXCEPT !.visits = @ + visit_data[DictGet(visit_data, r.short_code)][2]]
          ELSE r : r \in rows}

\* ------------------------------------------- the flush job (flush_visits.py)
\* extract_short_code: None unless the key starts with "visits:" and a
\* non-empty code follows.
extract_short_code(redis_key) ==
    IF redis_key[1] # "visits:" THEN Nil
    ELSE IF redis_key[2] = "" THEN Nil ELSE redis_key[2]

\* The orders in which SCAN can return the keys of a set.
Perms(S) ==
    {q \in UNION {[1..n -> S] : n \in {Cardinality(S)}} :
        \A x, y \in 1..Cardinality(S) : x # y => q[x] # q[y]}
SeqRange(q) == {q[n] : n \in 1..Len(q)}

\* `if count > 0` of main: the counters worth flushing.
AnyCount(count) == count >= 0
WorthFlushing(count) == count > 0

\* ------------------------------------------------------------------- Init
IdleShortener ==
    [pc |-> "idle", url |-> Nil, attempt |-> 0, short_code |-> Nil,
     result |-> Nil, after_return |-> FALSE, cache_failed |-> FALSE,
     db_calls |-> 0, db_errors |-> 0]

IdleResolver ==
    [pc |-> "idle", short_code |-> Nil, original |-> Nil, result |-> Nil,
     known |-> {}, cache_failed |-> FALSE, db_calls |-> 0, db_errors |-> 0]

\* No PostgresDB / RedisClient method has been called directly yet.
NoCall == [op |-> "none"]

IdleFlush ==
    [pc |-> "idle", cursor |-> 0, keys |-> <<>>, i |-> 1, visit_data |-> <<>>,
     j |-> 1,
     reads |-> {}, read_failed |-> {},
     incs_at_read |-> [c \in VisitArgs |-> 0],
     bulk_calls |-> <<>>, decrs |-> <<>>, all_ok |-> TRUE, aborted |-> FALSE]

Init ==
    /\ short_urls = {}
    /\ redis = <<>>
    /\ shortener = [p \in ShortenProcs |-> IdleShortener]
    /\ resolver = [p \in ResolveProcs |-> IdleResolver]
    /\ flush = [f \in OverlappingFlushProcs |-> IdleFlush]
    /\ returned = {}
    /\ total_incs = [c \in VisitArgs |-> 0]
    /\ decr_fails = 0
    /\ last_abort = {}
    /\ checked_out = 0
    /\ direct = NoCall

\* `except redis_exceptions.RedisError: logger.debug(...)` around the cache
\* read of shorten_url and resolve_short_code: the call goes on to the Store.
RedisErrorEscapes(call, store_pc) ==
    [call EXCEPT !.pc = "done", !.result = "RedisError", !.cache_failed = TRUE]
OnRedisError(call, store_pc) ==
    [call EXCEPT !.pc = store_pc, !.cache_failed = TRUE]

\* --------------------------------------- ShortenerService.shorten_url
\* The call starts with client.get(f"url:{original_url}"): a hit raises
\* OriginalURLAlreadyExists, a miss or a RedisError falls through to the Store.
ShortenStart(p, u) ==
    /\ shortener[p].pc \in {"idle", "done"}
    /\ LET call == [IdleShortener EXCEPT !.url = u,
                        !.after_return = (\E c \in Codes : <<c, u>> \in returned)]
       IN  \/ \* RedisError
              shortener' = [shortener EXCEPT ![p] =
                  OnRedisError(call, "url_exists")]
           \/ /\ Truthy(redis, UrlKey(u))
              /\ shortener' = [shortener EXCEPT ![p] =
                     [call EXCEPT !.pc = "done", !.result = "AlreadyExists"]]
           \/ /\ ~Truthy(redis, UrlKey(u))
              /\ shortener' = [shortener EXCEPT ![p] =
                     [call EXCEPT !.pc = "url_exists"]]
    /\ UNCHANGED <<short_urls, redis, resolver, flush, returned, total_incs,
                   decr_fails, last_abort,
                   checked_out, direct>>

\* `except OperationalError as exc: raise DatabaseUnavailable(...) from exc`
\* around each PostgresDB call of the Engine: the call ends there.
RetryOnOperationalError(made) ==
    IF made.pc = "insert" /\ made.attempt < MaxRetries
    THEN [made EXCEPT !.attempt = @ + 1, !.db_errors = @ + 1]
    ELSE [made EXCEPT !.pc = "done", !.result = "DatabaseUnavailable",
                      !.db_errors = @ + 1]
OnOperationalError(made) ==
    [made EXCEPT !.pc = "done", !.result = "DatabaseUnavailable",
                 !.db_errors = @ + 1]

\* pool_instance.getconn() with every connection handed out raises
\* psycopg2.pool.PoolError, a psycopg2.Error that is no OperationalError:
\* no except clause of the Engine matches and the error leaves the call.
OnPoolError(made) ==
    [made EXCEPT !.pc = "done", !.result = "PoolError", !.db_errors = @ + 1]

\* `for attempt in range(1, max_retries + 1)`: no iteration follows this one.
LoopExhaustedEarly(attempt) == attempt >= MaxRetries - 1
LoopExhaustedLate(attempt) == attempt > MaxRetries
LoopExhausted(attempt) == attempt >= MaxRetries

\* conn.rollback() of insert_short_url: the pending row is discarded.
NoRollback(before, pending) == pending
Rollback(before, pending) == before

\* PostgresDB.original_url_exists(original_url)
ShortenUrlExists(p) ==
    /\ shortener[p].pc = "url_exists"
    /\ LET made == [shortener[p] EXCEPT !.db_calls = @ + 1]
       IN  \/ \* PoolError
              /\ checked_out >= MaxConn
              /\ shortener' = [shortener EXCEPT ![p] = OnPoolError(made)]
           \/ \* OperationalError
              /\ checked_out < MaxConn
              /\ shortener' = [shortener EXCEPT ![p] = OnOperationalError(made)]
           \/ /\ checked_out < MaxConn
              /\ original_url_exists(short_urls, made.url)
              /\ shortener' = [shortener EXCEPT ![p] =
                     [made EXCEPT !.pc = "done", !.result = "AlreadyExists"]]
           \/ /\ checked_out < MaxConn
              /\ ~original_url_exists(short_urls, made.url)
              /\ shortener' = [shortener EXCEPT ![p] =
                     [made EXCEPT !.pc = "insert", !.attempt = 1]]
    /\ UNCHANGED <<short_urls, redis, resolver, flush, returned, total_incs,
                   decr_fails, last_abort,
                   checked_out, direct>>

\* One iteration of the retry loop: generate_short_code, then
\* PostgresDB.insert_short_url(short_code, original_url).
ShortenInsert(p, c) ==
    /\ shortener[p].pc = "insert"
    /\ LET made == [shortener[p] EXCEPT !.db_calls = @ + 1]
       IN  \/ \* PoolError
              /\ checked_out >= MaxConn
              /\ shortener' = [shortener EXCEPT ![p] = OnPoolError(made)]
              /\ UNCHANGED short_urls
           \/ \* OperationalError: rolled back
              /\ checked_out < MaxConn
              /\ shortener' = [shortener EXCEPT ![p] = OnOperationalError(made)]
              /\ short_urls' = Rollback(short_urls,
                                   insert_short_url(short_urls, c, made.url))
           \/ \* UniqueViolation: rolled back, next attempt or give up
              /\ checked_out < MaxConn
              /\ UniqueViolation(short_urls, c)
              /\ shortener' = [shortener EXCEPT ![p] =
                     IF ~LoopExhausted(made.attempt)
                     THEN [made EXCEPT !.attempt = @ + 1]
                     ELSE [made EXCEPT !.pc = "done",
                                       !.result = "GenerationFailed"]]
              /\ UNCHANGED short_urls
           \/ \* committed
              /\ checked_out < MaxConn
              /\ ~UniqueViolation(short_urls, c)
              /\ short_urls' = insert_short_url(short_urls, c, made.url)
              /\ shortener' = [shortener EXCEPT ![p] =
                     [made EXCEPT !.pc = "set_short", !.short_code = c]]
    /\ UNCHANGED <<redis, resolver, flush, returned, total_incs, decr_fails,
                   last_abort, checked_out, direct>>

\* RedisClient.set_with_ttl(f"short:{short_code}", original_url); a
\* RedisError is logged inside set_with_ttl.
ShortenSetShort(p) ==
    /\ shortener[p].pc = "set_short"
    /\ \/ /\ redis' = redis
          /\ shortener' = [shortener EXCEPT ![p].pc = "set_url",
                                            ![p].cache_failed = TRUE]
       \/ /\ redis' = setex(redis, ShortKey(shortener[p].short_code),
                            shortener[p].url)
          /\ shortener' = [shortener EXCEPT ![p].pc = "set_url"]
    /\ UNCHANGED <<short_urls, resolver, flush, returned, total_incs,
                   decr_fails, last_abort,
                   checked_out, direct>>

\* RedisClient.set_with_ttl(f"url:{original_url}", short_code); return.
ShortenSetUrl(p) ==
    /\ shortener[p].pc = "set_url"
    /\ \/ /\ redis' = redis
          /\ shortener' = [shortener EXCEPT ![p].pc = "done",
                               ![p].result = shortener[p].short_code,
                               ![p].cache_failed = TRUE]
       \/ /\ redis' = setex(redis, UrlKey(shortener[p].url),
                            shortener[p].short_code)
          /\ shortener' = [shortener EXCEPT ![p].pc = "done",
                               ![p].result = shortener[p].short_code]
    /\ returned' = returned \cup {<<shortener[p].short_code, shortener[p].url>>}
    /\ UNCHANGED <<short_urls, resolver, flush, total_incs, decr_fails,
                   last_abort,
                   checked_out, direct>>

\* ------------------------------- ShortenerService.resolve_short_code
\* The call starts with client.get(f"short:{short_code}"): a hit returns
\* the cached value, a miss or a RedisError falls through to the Store.
ResolveStart(p, c) ==
    /\ resolver[p].pc \in {"idle", "done"}
    /\ LET call == [IdleResolver EXCEPT !.short_code = c,
                        !.known = {u \in Urls : <<c, u>> \in returned}]
       IN  \/ \* RedisError
              resolver' = [resolver EXCEPT ![p] =
                  OnRedisError(call, "db_get")]
           \/ /\ Truthy(redis, ShortKey(c))
              /\ resolver' = [resolver EXCEPT ![p] =
                     [call EXCEPT !.pc = "done", !.result = redis[ShortKey(c)]]]
           \/ /\ ~Truthy(redis, ShortKey(c))
              /\ resolver' = [resolver EXCEPT ![p] =
                     [call EXCEPT !.pc = "db_get"]]
    /\ UNCHANGED <<short_urls, redis, shortener, flush, returned, total_incs,
                   decr_fails, last_abort,
                   checked_out, direct>>

\* PostgresDB.get_original_url(short_code)
ResolveDbGet(p) ==
    /\ resolver[p].pc = "db_get"
    /\ LET made == [resolver[p] EXCEPT !.db_calls = @ + 1]
           original == get_original_url(short_urls, made.short_code)
       IN  \/ \* PoolError
              /\ checked_out >= MaxConn
              /\ resolver' = [resolver EXCEPT ![p] = OnPoolError(made)]
              /\ UNCHANGED short_urls
           \/ \* OperationalError
              /\ checked_out < MaxConn
              /\ resolver' = [resolver EXCEPT ![p] = OnOperationalError(made)]
              /\ UNCHANGED short_urls
           \/ /\ checked_out < MaxConn
              /\ original = Nil
              /\ resolver' = [resolver EXCEPT ![p] =
                     [made EXCEPT !.pc = "done", !.result = "NotFound"]]
              /\ short_urls' = TableAfterSelect(short_urls, made.short_code)
           \/ /\ checked_out < MaxConn
              /\ original # Nil
              /\ resolver' = [resolver EXCEPT ![p] =
                     [made EXCEPT !.pc = "set_short", !.original = original]]
              /\ short_urls' = TableAfterSelect(short_urls, made.short_code)
    /\ UNCHANGED <<redis, shortener, flush, returned, total_incs,
                   decr_fails, last_abort, checked_out, direct>>

\* RedisClient.set_with_ttl(f"short:{short_code}", original)
ResolveSetShort(p) ==
    /\ resolver[p].pc = "set_short"
    /\ \/ /\ redis' = redis
          /\ resolver' = [resolver EXCEPT ![p].pc = "set_url",
                                          ![p].cache_failed = TRUE]
       \/ /\ redis' = setex(redis, ShortKey(resolver[p].short_code),
                            resolver[p].original)
          /\ resolver' = [resolver EXCEPT ![p].pc = "set_url"]
    /\ UNCHANGED <<short_urls, shortener, flush, returned, total_incs,
                   decr_fails, last_abort,
                   checked_out, direct>>

\* RedisClient.set_with_ttl(f"url:{original}", short_code); return original.
ResolveSetUrl(p) ==
    /\ resolver[p].pc = "set_url"
    /\ \/ /\ redis' = redis
          /\ resolver' = [resolver EXCEPT ![p].pc = "done",
                               ![p].result = resolver[p].original,
                               ![p].cache_failed = TRUE]
       \/ /\ redis' = setex(redis, UrlKey(resolver[p].original),
                            resolver[p].short_code)
          /\ resolver' = [resolver EXCEPT ![p].pc = "done",
                               ![p].result = resolver[p].original]
    /\ UNCHANGED <<short_urls, shortener, flush, returned, total_incs,
                   decr_fails, last_abort,
                   checked_out, direct>>

\* ------------------------------------------ routes/shorten_routes.py
\* create_short_url: the response to what shorten_url returned or raised;
\* an exception the handler does not catch becomes a 500.
create_short_url_swapped(outcome) ==
    IF outcome = "AlreadyExists"
    THEN [status |-> 503, body |-> <<"detail", "Database is unavailable.">>]
    ELSE IF outcome = "DatabaseUnavailable"
    THEN [status |-> 409,
          body |-> <<"detail", "This URL has already been shortened.">>]
    ELSE [status |-> 200, body |-> <<"BASE_URL", "/s/", outcome>>]
create_short_url(outcome) ==
    IF outcome = "AlreadyExists"
    THEN [status |-> 409,
          body |-> <<"detail", "This URL has already been shortened.">>]
    ELSE IF outcome = "GenerationFailed"
    THEN [status |-> 500, body |-> <<"detail", "str(exc)">>]
    ELSE IF outcome = "DatabaseUnavailable"
    THEN [status |-> 503, body |-> <<"detail", "Database is unavailable.">>]
    ELSE IF outcome \in Codes
    THEN [status |-> 200, body |-> <<"BASE_URL", "/s/", outcome>>]
    ELSE [status |-> 500, body |-> <<"Internal Server Error">>]

\* redirect_short_url: the response to what resolve_short_code returned or
\* raised.
redirect_short_url(outcome) ==
    IF outcome = "NotFound"
    THEN [status |-> 404, body |-> <<"detail", "Short code not found.">>]
    ELSE IF outcome = "DatabaseUnavailable"
    THEN [status |-> 503, body |-> <<"detail", "Database is unavailable.">>]
    ELSE IF outcome \in Urls
    THEN [status |-> 307, body |-> <<"Location", outcome>>]
    ELSE [status |-> 500, body |-> <<"Internal Server Error">>]

\* A short: or url: entry reaches its TTL (config.CACHE_TTL_HOURS).
Expire(k) ==
    /\ Present(redis, k)
    /\ redis' = delete(redis, k)
    /\ UNCHANGED <<short_urls, shortener, resolver, flush, returned,
                   total_incs, decr_fails, last_abort,
                   checked_out, direct>>

\* ------------------------------------------ RedisClient.increment_visit_count
\* INCRBY visits:<short_code> 1.  (A RedisError changes nothing and returns
\* None.)  The key "visits:" of an empty code is made once: nothing reads
\* its value.
SumIncs == total_incs["a"] + total_incs["b"]
IncrementVisit(c) ==
    /\ IF c = "" THEN ~Present(redis, VisitsKey(c)) ELSE SumIncs < MaxIncrements
    /\ redis' = incrby(redis, VisitsKey(c), 1)
    /\ total_incs' = [total_incs EXCEPT ![c] = @ + 1]
    /\ UNCHANGED <<short_urls, shortener, resolver, flush, returned,
                   decr_fails, last_abort,
                   checked_out, direct>>

\* A committed PostgresDB.insert_short_url of the Engine, the one step of
\* shorten_url the flush job can observe.
EngineInsert(c, u) ==
    /\ ~UniqueViolation(short_urls, c)
    /\ short_urls' = insert_short_url(short_urls, c, u)
    /\ UNCHANGED <<redis, shortener, resolver, flush, returned, total_incs,
                   decr_fails, last_abort,
                   checked_out, direct>>

\* ------------------------------------------------------ flush_visits.main
\* One client.scan call of get_all_visit_keys; the first one starts the run.
\* A page holds, in any order, keys not returned yet; the page that returns
\* cursor 0 holds all that are left.  A RedisError makes the key list [].
ReturnPartialList(run) ==
    [run EXCEPT !.pc = IF run.keys = <<>> THEN "done" ELSE "read",
                !.all_ok = FALSE]
ReturnEmptyList(run) ==
    [run EXCEPT !.pc = "done", !.keys = <<>>, !.all_ok = FALSE]

ScanKeys(f) ==
    /\ flush[f].pc \in {"idle", "done", "scan"}
    /\ LET run == IF flush[f].pc = "scan" THEN flush[f] ELSE IdleFlush
           left == {k \in VisitKeys : Present(redis, k)} \ SeqRange(run.keys)
       IN  \/ \* RedisError: keys = [], nothing to flush
              flush' = [flush EXCEPT ![f] = ReturnEmptyList(run)]
           \/ \* a page with a non-zero cursor
              /\ run.cursor + 1 < MaxScanPages
              /\ \E S \in SUBSET left : \E batch \in Perms(S) :
                    flush' = [flush EXCEPT ![f] =
                        [run EXCEPT !.pc = "scan", !.cursor = @ + 1,
                                    !.keys = @ \o batch]]
           \/ \* the page with cursor 0
              \E batch \in Perms(left) :
                 flush' = [flush EXCEPT ![f] =
                     [run EXCEPT !.cursor = 0, !.keys = @ \o batch,
                          !.pc = IF run.keys \o batch = <<>> THEN "done"
                                 ELSE "read"]]
    /\ UNCHANGED <<short_urls, redis, shortener, resolver, returned,
                   total_incs, decr_fails, last_abort,
                   checked_out>>

FlushScan(f) ==
    /\ ScanKeys(f)
    /\ UNCHANGED direct

\* The state of the run after the iteration of keys[i]: the loop goes on,
\* or ends with `if not visit_data: return`, or goes to the bulk write.
AfterReadAlwaysBulk(run) ==
    [run EXCEPT !.i = @ + 1,
                !.pc = IF run.i < Len(run.keys) THEN "read" ELSE "bulk"]
AfterRead(run) ==
    [run EXCEPT !.i = @ + 1,
                !.pc = IF run.i < Len(run.keys) THEN "read"
                       ELSE IF run.visit_data = <<>> THEN "done" ELSE "bulk"]

\* `if count is None: ... continue`: the code is skipped in this run.
FlushedWithoutCount(run, short_code) ==
    [run EXCEPT !.read_failed = @ \cup {short_code}, !.all_ok = FALSE,
                !.visit_data = DictSet(@, short_code, 1)]
SkipOnNone(run, short_code) ==
    [run EXCEPT !.read_failed = @ \cup {short_code}, !.all_ok = FALSE]

\* One iteration of `for redis_key in keys`.
FlushRead(f) ==
    /\ flush[f].pc = "read"
    /\ LET run == flush[f]
           short_code == extract_short_code(run.keys[run.i])
       IN  \/ \* invalid key: ignored
              /\ short_code = Nil
              /\ flush' = [flush EXCEPT ![f] = AfterRead(run)]
           \/ \* get_visit_count returns None (RedisError): skipped
              /\ short_code # Nil
              /\ flush' = [flush EXCEPT ![f] =
                     AfterRead(SkipOnNone(run, short_code))]
           \/ \* get_visit_count returns the count
              /\ short_code # Nil
              /\ LET count == get_visit_count(redis, short_code)
                 IN flush' = [flush EXCEPT ![f] = AfterRead(
                      [run EXCEPT !.reads = @ \cup {<<short_code, count>>},
                          !.incs_at_read[short_code] = total_incs[short_code],
                          !.visit_data = IF WorthFlushing(count)
                                         THEN DictSet(@, short_code, count)
                                         ELSE @])]
    /\ UNCHANGED <<short_urls, redis, shortener, resolver, returned,
                   total_incs, decr_fails, last_abort,
                   checked_out, direct>>

\* `except OperationalError` around the bulk write: "Abort flush, Redis
\* counters left untouched", return.
BulkErrorIgnored(run) == [run EXCEPT !.pc = "decr", !.aborted = TRUE,
                                     !.all_ok = FALSE]
AbortRun(run) == [run EXCEPT !.pc = "done", !.aborted = TRUE,
                             !.all_ok = FALSE]

\* PostgresDB.increment_visits_bulk(visit_data); an OperationalError aborts
\* the run.
FlushBulk(f) ==
    /\ flush[f].pc = "bulk"
    /\ LET run == [flush[f] EXCEPT !.bulk_calls = Append(@, flush[f].visit_data)]
       IN  \/ \* OperationalError: rolled back, "Abort flush"
              /\ flush' = [flush EXCEPT ![f] = AbortRun(run)]
              /\ last_abort' = SeqRange(run.visit_data)
              /\ UNCHANGED short_urls
           \/ \* committed
              /\ short_urls' = increment_visits_bulk(short_urls, run.visit_data)
              /\ flush' = [flush EXCEPT ![f] = [run EXCEPT !.pc = "decr"]]
              /\ last_abort' = {}
    /\ UNCHANGED <<redis, shortener, resolver, returned, total_incs,
                   decr_fails,
                   checked_out, direct>>

\* The state of the run after the iteration of visit_data[j].
AfterDecrementStop(run) == [run EXCEPT !.j = @ + 1, !.pc = "done"]
AfterDecrement(run) ==
    [run EXCEPT !.j = @ + 1,
                !.pc = IF run.j < Len(run.visit_data) THEN "decr" ELSE "done"]

\* decrement_visit_count(short_code, count), first half: client.decrby.
FlushDecrBy(f) ==
    /\ flush[f].pc = "decr"
    /\ LET item == flush[f].visit_data[flush[f].j]
           run == [flush[f] EXCEPT !.decrs = Append(@, item)]
           after == decrby(redis, VisitsKey(item[1]), item[2])
       IN  \/ \* RedisError: returns None, "Failed to decrement"
              /\ decr_fails < MaxDecrFailures
              /\ decr_fails' = decr_fails + 1
              /\ flush' = [flush EXCEPT ![f] =
                     AfterDecrement([run EXCEPT !.all_ok = FALSE])]
              /\ UNCHANGED redis
           \/ /\ redis' = after
              /\ flush' = [flush EXCEPT ![f] =
                     IF ReachedZero(after[VisitsKey(item[1])])
                     THEN [run EXCEPT !.pc = "delete"]
                     ELSE AfterDecrement(run)]
              /\ UNCHANGED decr_fails
    /\ UNCHANGED <<short_urls, shortener, resolver, returned, total_incs,
                   last_abort,
                   checked_out, direct>>

\* decrement_visit_count, second half: client.delete when new_count <= 0.
FlushDelete(f) ==
    /\ flush[f].pc = "delete"
    /\ LET item == flush[f].visit_data[flush[f].j]
       IN  \/ \* RedisError: returns None
              /\ flush' = [flush EXCEPT ![f] =
                     AfterDecrement([flush[f] EXCEPT !.all_ok = FALSE])]
              /\ UNCHANGED redis
           \/ /\ redis' = delete(redis, VisitsKey(item[1]))
              /\ flush' = [flush EXCEPT ![f] = AfterDecrement(flush[f])]
    /\ UNCHANGED <<short_urls, shortener, resolver, returned, total_incs,
                   decr_fails, last_abort,
                   checked_out, direct>>

\* ------------------------------------------------------- specifications
Shorten(p) ==
    \/ \E u \in Urls : ShortenStart(p, u)
    \/ ShortenUrlExists(p)
    \/ \E c \in Codes : ShortenInsert(p, c)
    \/ ShortenSetShort(p)
    \/ ShortenSetUrl(p)

Resolve(p) ==
    \/ \E c \in Codes : ResolveStart(p, c)
    \/ ResolveDbGet(p)
    \/ ResolveSetShort(p)
    \/ ResolveSetUrl(p)

\* Two request threads shortening concurrently, with cache expiry.
NextShorten ==
    \/ \E p \in ShortenProcs : Shorten(p)
    \/ \E k \in MappingKeys : Expire(k)

SpecShorten == Init /\ [][NextShorten]_vars

\* One thread shortening and one resolving concurrently, with cache expiry.
NextResolve ==
    \/ Shorten("s1")
    \/ \E p \in ResolveProcs : Resolve(p)
    \/ \E k \in MappingKeys : Expire(k)

SpecResolve == Init /\ [][NextResolve]_vars

\* The table and the counters as main() finds them when it starts: the
\* visits of each code's record (-1 without a record), the value of each
\* counter and the increments made so far.
AtStart ==
    [op |-> "flush_run",
     visits |-> [c \in Codes |->
                    IF \E r \in short_urls : r.short_code = c
                    THEN (CHOOSE r \in short_urls : r.short_code = c).visits
                    ELSE -1],
     counter |-> [c \in Codes |-> get_visit_count(redis, c)],
     total |-> total_incs]

\* main() starts: its first client.scan call.
RunStart(f) ==
    /\ flush[f].pc \in {"idle", "done"}
    /\ ScanKeys(f)
    /\ direct' = AtStart

\* Every later step of the run.
RunStep(f) ==
    \/ /\ flush[f].pc = "scan"
       /\ FlushScan(f)
    \/ FlushRead(f)
    \/ FlushBulk(f)
    \/ FlushDecrBy(f)
    \/ FlushDelete(f)

\* One flush run at a time, each compared with the state it started from,
\* with visits of two codes arriving, one of which gets a record.
NextRun ==
    \/ \E f \in FlushProcs : RunStart(f)
    \/ \E f \in FlushProcs : RunStep(f)
    \/ \E c \in Codes : IncrementVisit(c)
    \/ EngineInsert("a", "u1")

SpecRun == Init /\ [][NextRun]_vars

\* The short: entry a call wrote with its first set_with_ttl and has not
\* yet followed with its second: written a moment ago with a TTL of
\* CACHE_TTL_HOURS hours, it is not due to expire.
JustWritten(k) ==
    \/ \E p \in ShortenProcs :
          /\ shortener[p].pc = "set_url"
          /\ k = ShortKey(shortener[p].short_code)
    \/ \E p \in ResolveProcs :
          /\ resolver[p].pc = "set_url"
          /\ k = ShortKey(resolver[p].short_code)

\* An entry reaches its TTL, hours after it was written.
ExpireWhenDue(k) ==
    /\ ~JustWritten(k)
    /\ Expire(k)

\* One thread shortening and one resolving, entries expiring when due.
NextWarm ==
    \/ Shorten("s1")
    \/ \E p \in ResolveProcs : Resolve(p)
    \/ \E k \in MappingKeys : ExpireWhenDue(k)

SpecWarm == Init /\ [][NextWarm]_vars

Flush(f) ==
    \/ FlushScan(f)
    \/ FlushRead(f)
    \/ FlushBulk(f)
    \/ FlushDecrBy(f)
    \/ FlushDelete(f)

\* One flush run at a time, with visits arriving and codes being inserted.
NextFlush ==
    \/ \E f \in FlushProcs : Flush(f)
    \/ \E c \in VisitArgs : IncrementVisit(c)
    \/ \E c \in Codes : EngineInsert(c, "u1")

SpecFlush == Init /\ [][NextFlush]_vars

\* PostgresDB.get_short_url_stat running in other request threads (the
\* endpoints are plain `def`, served from a thread pool): getconn ...
StatGetconn ==
    /\ checked_out < MaxConn
    /\ checked_out' = checked_out + 1
    /\ UNCHANGED <<short_urls, redis, shortener, resolver, flush, returned,
                   total_incs, decr_fails, last_abort, direct>>

\* ... and `finally: pool_instance.putconn(conn)`.
StatPutconn ==
    /\ checked_out > 0
    /\ checked_out' = checked_out - 1
    /\ UNCHANGED <<short_urls, redis, shortener, resolver, flush, returned,
                   total_incs, decr_fails, last_abort, direct>>

\* One thread shortening and one resolving while other threads hold
\* connections of the pool.
NextPool ==
    \/ Shorten("s1")
    \/ \E p \in ResolveProcs : Resolve(p)
    \/ StatGetconn
    \/ StatPutconn

SpecPool == Init /\ [][NextPool]_vars

\* ------------------------------------- PostgresDB / RedisClient called directly
\* The visit_data a caller can pass: a dict over the codes, empty included.
VisitData ==
    {<<>>}
    \cup {<<<<c, n>>>> : c \in Codes, n \in 1..MaxAmount}
    \cup {<<<<c[1], n[1]>>, <<c[2], n[2]>>>> :
             c \in {q \in Codes \X Codes : q[1] # q[2]},
             n \in (1..MaxAmount) \X (1..MaxAmount)}

\* PostgresDB.increment_visits_bulk(visit_data), as one call.
BulkCall(visit_data) ==
    /\ \A r \in short_urls : \A n \in 1..Len(visit_data) :
          r.short_code = visit_data[n][1] => r.visits + visit_data[n][2] <= MaxVisits
    /\ LET made == [op |-> "increment_visits_bulk", visit_data |-> visit_data,
                    before |-> short_urls, out |-> checked_out]
       IN  \/ \* `if not visit_data: return`
              /\ NothingToWrite(visit_data)
              /\ direct' = made @@ [conn |-> FALSE, result |-> "ok",
                                    after |-> short_urls]
              /\ UNCHANGED short_urls
           \/ \* getconn raises PoolError
              /\ ~NothingToWrite(visit_data)
              /\ checked_out >= MaxConn
              /\ direct' = made @@ [conn |-> FALSE, result |-> "PoolError",
                                    after |-> short_urls]
              /\ UNCHANGED short_urls
           \/ \* OperationalError: conn.rollback()
              /\ ~NothingToWrite(visit_data)
              /\ checked_out < MaxConn
              /\ short_urls' = Rollback(short_urls,
                                   increment_visits_bulk(short_urls, visit_data))
              /\ direct' = made @@ [conn |-> TRUE, result |-> "OperationalError",
                                    after |-> short_urls']
           \/ \* conn.commit()
              /\ ~NothingToWrite(visit_data)
              /\ checked_out < MaxConn
              /\ short_urls' = increment_visits_bulk(short_urls, visit_data)
              /\ direct' = made @@ [conn |-> TRUE, result |-> "ok",
                                    after |-> short_urls']
    /\ UNCHANGED <<redis, shortener, resolver, flush, returned, total_incs,
                   decr_fails, last_abort, checked_out>>

\* The Store's bulk write called with any mapping, next to inserts and to
\* other threads using the pool.
NextStore ==
    \/ \E visit_data \in VisitData : BulkCall(visit_data)
    \/ \E c \in Codes : EngineInsert(c, "u1")
    \/ StatGetconn
    \/ StatPutconn

SpecStore == Init /\ [][NextStore]_vars

\* No directly called decrement_visit_count is between its two commands.
NoCallInProgress ==
    IF direct.op = "decrement_visit_count" THEN direct.pc = "done" ELSE TRUE

\* RedisClient.get_visit_count(short_code), as one call.
GetVisitCountCall(c) ==
    /\ NoCallInProgress
    /\ LET made == [op |-> "get_visit_count", code |-> c,
                    present |-> Present(redis, VisitsKey(c)),
                    stored |-> IF Present(redis, VisitsKey(c))
                               THEN redis[VisitsKey(c)] ELSE 0]
       IN  \/ \* client.get raises RedisError
              direct' = made @@ [raised |-> TRUE, ret |-> ReturnOnRedisError]
           \/ direct' = made @@ [raised |-> FALSE,
                                 ret |-> ReturnCount(get_visit_count(redis, c))]
    /\ UNCHANGED <<short_urls, redis, shortener, resolver, flush, returned,
                   total_incs, decr_fails, last_abort, checked_out>>

\* RedisClient.decrement_visit_count(short_code, amount): client.decrby.
DecrementCallDecrBy(c, amount) ==
    /\ NoCallInProgress
    /\ LET made == [op |-> "decrement_visit_count", code |-> c,
                    amount |-> amount]
           after == decrby(redis, VisitsKey(c), amount)
       IN  \/ \* RedisError: returns None
              /\ direct' = made @@ [pc |-> "done", none |-> TRUE, new_count |-> 0]
              /\ UNCHANGED redis
           \/ /\ redis' = after
              /\ direct' = made @@
                     [pc |-> IF ReachedZero(after[VisitsKey(c)])
                             THEN "delete" ELSE "done",
                      none |-> FALSE, new_count |-> after[VisitsKey(c)]]
    /\ UNCHANGED <<short_urls, shortener, resolver, flush, returned,
                   total_incs, decr_fails, last_abort, checked_out>>

\* ... and client.delete when new_count <= 0; return new_count.
DecrementCallDelete ==
    /\ direct.op = "decrement_visit_count"
    /\ direct.pc = "delete"
    /\ \/ \* RedisError: returns None, the key stays
          /\ decr_fails < MaxDecrFailures
          /\ decr_fails' = decr_fails + 1
          /\ direct' = [direct EXCEPT !.pc = "done", !.none = TRUE]
          /\ UNCHANGED redis
       \/ /\ redis' = delete(redis, VisitsKey(direct.code))
          /\ direct' = [direct EXCEPT !.pc = "done"]
          /\ UNCHANGED decr_fails
    /\ UNCHANGED <<short_urls, shortener, resolver, flush, returned,
                   total_incs, last_abort, checked_out>>

\* One thread calling the counter helpers while visits arrive.
NextCache ==
    \/ \E c \in Codes : GetVisitCountCall(c)
    \/ \E c \in Codes : \E amount \in 1..MaxAmount : DecrementCallDecrBy(c, amount)
    \/ DecrementCallDelete
    \/ \E c \in Codes : IncrementVisit(c)

SpecCache == Init /\ [][NextCache]_vars

\* ------------------------------ the connection of a PostgresDB method
\* The methods of PostgresDB; increment_visits_bulk with an empty and with
\* a non-empty visit_data.
StoreOps ==
    {"check_health", "original_url_exists", "insert_short_url",
     "get_original_url", "increment_visits_bulk", "increment_visits_bulk_empty",
     "get_short_url_stat"}

\* How the statements between getconn and putconn can end: they return, or
\* raise UniqueViolation (the INSERT only), OperationalError, or any other
\* psycopg2.Error.
ExitsOf(name) ==
    {"return", "OperationalError", "Error"}
    \cup (IF name = "insert_short_url" THEN {"UniqueViolation"} ELSE {})

IdleOp == [name |-> "none", pc |-> "idle", holds |-> FALSE, exit |-> "none"]

\* The methods in progress, per thread.
StoreThreads ==
    IF direct.op = "store_ops" THEN direct.th ELSE [t \in ConnThreads |-> IdleOp]

\* `finally: pool_instance.putconn(conn)`: on every way out of the try block.
ReleaseOnReturnOnly(exit) == exit = "return"
ReleaseOnExit(exit) == TRUE

\* A thread calls a method: get_pool(), which can raise OperationalError when
\* it has to create the pool; increment_visits_bulk returns at once for an
\* empty visit_data.
StoreOpStart(t, name) ==
    /\ direct.op \in {"none", "store_ops"}
    /\ StoreThreads[t].pc \in {"idle", "done"}
    /\ \E op \in {[IdleOp EXCEPT !.name = name, !.pc = "getconn"],
                  [IdleOp EXCEPT !.name = name, !.pc = "done",
                                 !.exit = "OperationalError"]} :
          /\ (name = "increment_visits_bulk_empty") =>
                 op = [IdleOp EXCEPT !.name = name, !.pc = "getconn"]
          /\ direct' = [op |-> "store_ops",
                        th |-> [StoreThreads EXCEPT ![t] =
                            IF name = "increment_visits_bulk_empty"
                            THEN [op EXCEPT !.pc = "done", !.exit = "return"]
                            ELSE op]]
    /\ UNCHANGED <<short_urls, redis, shortener, resolver, flush, returned,
                   total_incs, decr_fails, last_abort, checked_out>>

\* conn = pool_instance.getconn(): PoolError when maxconn connections are
\* out, OperationalError when a new connection cannot be opened.
StoreOpGetconn(t) ==
    /\ direct.op = "store_ops"
    /\ direct.th[t].pc = "getconn"
    /\ \/ /\ checked_out >= MaxConn
          /\ direct' = [direct EXCEPT !.th[t].pc = "done",
                                      !.th[t].exit = "PoolError"]
          /\ UNCHANGED checked_out
       \/ /\ checked_out < MaxConn
          /\ direct' = [direct EXCEPT !.th[t].pc = "done",
                                      !.th[t].exit = "OperationalError"]
          /\ UNCHANGED checked_out
       \/ /\ checked_out < MaxConn
          /\ checked_out' = checked_out + 1
          /\ direct' = [direct EXCEPT !.th[t].pc = "try", !.th[t].holds = TRUE]
    /\ UNCHANGED <<short_urls, redis, shortener, resolver, flush, returned,
                   total_incs, decr_fails, last_abort>>

\* The try block: the statements run and end in one of the method's ways.
StoreOpTry(t) ==
    /\ direct.op = "store_ops"
    /\ direct.th[t].pc = "try"
    /\ \E exit \in ExitsOf(direct.th[t].name) :
          direct' = [direct EXCEPT !.th[t].pc = "finally", !.th[t].exit = exit]
    /\ UNCHANGED <<short_urls, redis, shortener, resolver, flush, returned,
                   total_incs, decr_fails, last_abort, checked_out>>

\* The finally block, then the method returns or the exception goes on.
StoreOpFinally(t) ==
    /\ direct.op = "store_ops"
    /\ direct.th[t].pc = "finally"
    /\ checked_out' = IF ReleaseOnExit(direct.th[t].exit)
                      THEN checked_out - 1 ELSE checked_out
    /\ direct' = [direct EXCEPT !.th[t].pc = "done", !.th[t].holds = FALSE]
    /\ UNCHANGED <<short_urls, redis, shortener, resolver, flush, returned,
                   total_incs, decr_fails, last_abort>>

\* More threads than connections, each calling any method of PostgresDB.
NextConn ==
    \/ \E t \in ConnThreads : \E name \in StoreOps : StoreOpStart(t, name)
    \/ \E t \in ConnThreads : StoreOpGetconn(t)
    \/ \E t \in ConnThreads : StoreOpTry(t)
    \/ \E t \in ConnThreads : StoreOpFinally(t)

SpecConn == Init /\ [][NextConn]_vars

\* A visit of a code the Store holds a record of.
VisitOfRecord(c) ==
    /\ \E r \in short_urls : r.short_code = c
    /\ IncrementVisit(c)

\* The flush job with visits of recorded codes only.
NextDelivery ==
    \/ \E f \in FlushProcs : Flush(f)
    \/ \E c \in Codes : VisitOfRecord(c)
    \/ \E c \in Codes : EngineInsert(c, "u1")

\* Two runs of the flush job at once (nothing in flush_visits.py or in its
\* scheduling keeps a second process from starting), with visits of one
\* recorded code.
NextOverlap ==
    \/ \E f \in OverlappingFlushProcs : Flush(f)
    \/ VisitOfRecord("a")
    \/ EngineInsert("a", "u1")

SpecOverlap == Init /\ [][NextOverlap]_vars

\* A key enumeration that ends without a RedisError.
ScanOk(f) ==
    /\ FlushScan(f)
    /\ flush'[f].pc # "scan"
    /\ flush'[f].all_ok

\* A counter read of code c that returns its count.
ReadOk(f, c) ==
    /\ flush[f].pc = "read"
    /\ extract_short_code(flush[f].keys[flush[f].i]) = c
    /\ FlushRead(f)
    /\ c \notin flush'[f].read_failed

\* A bulk write that commits.
BulkOk(f) ==
    /\ FlushBulk(f)
    /\ ~flush'[f].aborted

\* Cron keeps starting runs and a started run goes on (weak fairness); the
\* cache and the Store are healthy again and again, so a call that is made
\* again and again succeeds at some time (strong fairness).
SpecDelivery ==
    /\ Init
    /\ [][NextDelivery]_vars
    /\ \A f \in FlushProcs :
          /\ WF_vars(Flush(f))
          /\ SF_vars(ScanOk(f))
          /\ SF_vars(BulkOk(f))
          /\ \A c \in Codes : SF_vars(ReadOk(f, c))

\* ------------------------------------------------------------------ claims
\* C1: round trip.  A resolve_short_code(c) that starts after a shorten_url(u)
\* has returned c, and that does not end with DatabaseUnavailable, returns
\* exactly u, whatever expired or failed in the cache in between.
C1_RoundTrip ==
    \A p \in ResolveProcs :
        (resolver[p].pc = "done" /\ resolver[p].result # "DatabaseUnavailable")
        => \A u \in resolver[p].known : resolver[p].result = u

\* A resolve of a returned code that was answered by the Store, after the
\* cache entry was lost or unreadable.
C1_Witness ==
    \E p \in ResolveProcs :
        /\ resolver[p].pc = "done"
        /\ resolver[p].known # {}
        /\ resolver[p].result \in resolver[p].known
        /\ resolver[p].original = resolver[p].result

\* C2: a shorten_url(u) that starts after an earlier shorten_url(u) has
\* returned never reaches the insert loop (it adds no record) and, unless the
\* Store fails, ends with OriginalURLAlreadyExists, with the url: entry
\* present, expired or unreadable.
C2_SecondShortenAlreadyExists ==
    \A p \in ShortenProcs :
        shortener[p].after_return =>
            /\ shortener[p].pc \in {"url_exists", "done"}
            /\ shortener[p].pc = "done" =>
                   shortener[p].result \in {"AlreadyExists", "DatabaseUnavailable"}

\* A second shorten of a returned URL that could not read the cache and was
\* rejected by the Store's existence check.
C2_Witness ==
    \E p \in ShortenProcs :
        /\ shortener[p].after_return
        /\ shortener[p].cache_failed
        /\ shortener[p].pc = "done"
        /\ shortener[p].result = "AlreadyExists"

\* C3: the Store holds at most one record per original_url.
C3_OneRecordPerUrl ==
    \A r1, r2 \in short_urls :
        r1.original_url = r2.original_url => r1 = r2

\* C4: no two Store records share a short_code, and an insert step either
\* adds exactly one record under a code no record had, or (collision, or
\* Store failure) leaves the table as it was, the call moving to its next
\* attempt or ending with ShortCodeGenerationFailed / DatabaseUnavailable.
UniqueShortCodes ==
    \A r1, r2 \in short_urls : r1.short_code = r2.short_code => r1 = r2

InsertStepOutcome(p) ==
    \/ \E c \in Codes :
          /\ ~\E r \in short_urls : r.short_code = c
          /\ short_urls' = short_urls \cup {Row(c, shortener[p].url, 0)}
          /\ shortener'[p].pc = "set_short"
          /\ shortener'[p].short_code = c
    \/ /\ short_urls' = short_urls
       /\ \/ /\ shortener'[p].pc = "insert"
             /\ shortener'[p].attempt = shortener[p].attempt + 1
             /\ shortener'[p].attempt <= MaxRetries
          \/ /\ shortener'[p].pc = "done"
             /\ shortener'[p].result = "GenerationFailed"
             /\ shortener[p].attempt = MaxRetries
          \/ /\ shortener'[p].pc = "done"
             /\ shortener'[p].result = "DatabaseUnavailable"

C4_InsertDetectsCollision ==
    /\ []UniqueShortCodes
    /\ [][\A p \in ShortenProcs :
             (shortener[p].pc = "insert" /\ shortener'[p] # shortener[p])
             => InsertStepOutcome(p)]_vars

\* Two concurrent calls met on one code: one holds the record, the other is
\* on a later attempt for another URL.
C4_Witness ==
    \E p, q \in ShortenProcs :
        /\ p # q
        /\ shortener[p].pc \in {"set_short", "set_url"}
        /\ shortener[q].pc = "insert"
        /\ shortener[q].attempt = 2
        /\ shortener[p].url # shortener[q].url
        /\ Cardinality(short_urls) = 1

\* C5: a successful resolve_short_code(c) leaves the visit counter of c one
\* higher; nothing else touches the counters here, so after it the counter
\* is at least 1.
C5_ResolveIncrementsCounter ==
    \A p \in ResolveProcs :
        (resolver[p].pc = "done" /\ resolver[p].result \in Urls)
        => get_visit_count(redis, resolver[p].short_code) >= 1

\* C6: a call in which a cache read or write failed ends as the Store alone
\* decides: shorten_url with the inserted code, or AlreadyExists for a URL
\* the Store holds, or GenerationFailed after MaxRetries attempts;
\* resolve_short_code with the URL of the code's record, or NotFound for a
\* code that no earlier shorten_url had returned; DatabaseUnavailable only
\* comes from a failing Store call.
C6_CacheFailuresAreTransparent ==
    /\ \A p \in ShortenProcs :
          (shortener[p].pc = "done" /\ shortener[p].cache_failed) =>
             \/ shortener[p].result = "DatabaseUnavailable"
             \/ /\ shortener[p].result = "AlreadyExists"
                /\ \E r \in short_urls : r.original_url = shortener[p].url
             \/ /\ shortener[p].result = "GenerationFailed"
                /\ shortener[p].attempt = MaxRetries
             \/ /\ shortener[p].result \in Codes
                /\ \E r \in short_urls :
                      /\ r.short_code = shortener[p].result
                      /\ r.original_url = shortener[p].url
    /\ \A p \in ResolveProcs :
          (resolver[p].pc = "done" /\ resolver[p].cache_failed) =>
             \/ resolver[p].result = "DatabaseUnavailable"
             \/ /\ resolver[p].result = "NotFound"
                /\ resolver[p].known = {}
             \/ /\ resolver[p].result \in Urls
                /\ \E r \in short_urls :
                      /\ r.short_code = resolver[p].short_code
                      /\ r.original_url = resolver[p].result

\* A shorten_url that returned its code and a resolve_short_code that
\* returned the URL, each after a failed cache call.
C6_Witness ==
    /\ \E p \in ShortenProcs :
          /\ shortener[p].pc = "done"
          /\ shortener[p].cache_failed
          /\ shortener[p].result \in Codes
    /\ \E p \in ResolveProcs :
          /\ resolver[p].pc = "done"
          /\ resolver[p].cache_failed
          /\ resolver[p].result \in Urls

\* C7: a flush run in which no call failed has made one increment_visits_bulk
\* call, with exactly the <<code, count>> it read for the well-formed keys
\* whose count was positive, and then one decrement_visit_count(code, count)
\* for each of them; with nothing positive it made neither call.  Keys with a
\* zero counter and the malformed key appear in neither.
PositiveReads(run) ==
    {rc \in run.reads : rc[1] \in Codes /\ rc[2] > 0}

C7_FlushAppliesExactlyWhatItRead ==
    \A f \in FlushProcs :
        (flush[f].pc = "done" /\ flush[f].all_ok) =>
            IF PositiveReads(flush[f]) = {}
            THEN flush[f].bulk_calls = <<>> /\ flush[f].decrs = <<>>
            ELSE /\ Len(flush[f].bulk_calls) = 1
                 /\ SeqRange(flush[f].bulk_calls[1]) = PositiveReads(flush[f])
                 /\ Len(flush[f].bulk_calls[1]) =
                        Cardinality(PositiveReads(flush[f]))
                 /\ flush[f].decrs = flush[f].bulk_calls[1]

\* A clean run over a positive counter, a zero counter and the key "visits:".
C7_Witness ==
    \E f \in FlushProcs :
        /\ flush[f].pc = "done"
        /\ flush[f].all_ok
        /\ Len(flush[f].bulk_calls) = 1
        /\ VisitsKey("") \in SeqRange(flush[f].keys)
        /\ \E rc \in flush[f].reads : rc[2] = 0
        /\ \E rc \in flush[f].reads : rc[2] > 0

\* C8: a run whose bulk write fails makes no decrement and the failing step
\* changes neither the table nor the cache; the counters read afterwards
\* (until a later bulk write succeeds) are at least those the failed run read.
C8_AbortedRunTouchesNothing ==
    /\ [](\A f \in FlushProcs :
            /\ flush[f].aborted => (flush[f].pc = "done" /\ flush[f].decrs = <<>>)
            /\ \A old \in last_abort : \A new \in flush[f].reads :
                  old[1] = new[1] => new[2] >= old[2])
    /\ [][\A f \in FlushProcs :
             (flush'[f].aborted /\ ~flush[f].aborted)
             => (short_urls' = short_urls /\ redis' = redis)]_vars

\* The run after an aborted one has read a counter that grew in between.
C8_Witness ==
    \E f \in FlushProcs :
        /\ ~flush[f].aborted
        /\ flush[f].pc = "bulk"
        /\ \E old \in last_abort : \E new \in flush[f].reads :
              old[1] = new[1] /\ new[2] > old[2]

\* C9: after a run in which no call failed, the counter of every flushed
\* code equals the number of increments that arrived after the run read it.
C9_NoIncrementLostDuringFlush ==
    \A f \in FlushProcs :
        (flush[f].pc = "done" /\ flush[f].all_ok) =>
            \A rc \in SeqRange(flush[f].visit_data) :
                get_visit_count(redis, rc[1]) =
                    total_incs[rc[1]] - flush[f].incs_at_read[rc[1]]

C11_EveryIncrementDelivered ==
    \A c \in Codes : \A n \in 1..MaxIncrements :
        (total_incs[c] >= n)
            ~> (\E r \in short_urls : r.short_code = c /\ r.visits >= n)

\* C12: a shorten_url whose every insert attempt was rejected by the unique
\* constraint ends with ShortCodeGenerationFailed after exactly MaxRetries
\* insert calls (one more Store call than that, counting the existence
\* check), has inserted nothing, and none of its rejected attempts changed
\* the table.
C12_ExhaustedRetries ==
    /\ [](\A p \in ShortenProcs :
            shortener[p].result = "GenerationFailed" =>
                /\ shortener[p].pc = "done"
                /\ shortener[p].attempt = MaxRetries
                /\ shortener[p].db_calls = 1 + MaxRetries
                /\ shortener[p].db_errors = 0
                /\ shortener[p].short_code = Nil)
    /\ [][\A p \in ShortenProcs :
             (shortener[p].pc = "insert"
                 /\ shortener'[p].db_calls = shortener[p].db_calls + 1
                 /\ shortener'[p].short_code = Nil)
             => short_urls' = short_urls]_vars

\* A call that gave up while the other call's record is in the table.
C12_Witness ==
    \E p \in ShortenProcs :
        /\ shortener[p].pc = "done"
        /\ shortener[p].result = "GenerationFailed"
        /\ \A r \in short_urls : r.original_url # shortener[p].url
        /\ short_urls # {}

\* C13: a resolve_short_code(c) that asks the Store while no record has
\* code c, the Store answering, ends with ShortCodeNotFound in that step,
\* without a write to the cache or the Store; a call that ended with
\* ShortCodeNotFound made one Store call and holds no URL.
C13_UnknownCodeNotFound ==
    /\ [](\A p \in ResolveProcs :
            resolver[p].result = "NotFound" =>
                /\ resolver[p].pc = "done"
                /\ resolver[p].original = Nil
                /\ resolver[p].db_calls = 1)
    /\ [][\A p \in ResolveProcs :
             (resolver[p].pc = "db_get"
                 /\ resolver'[p] # resolver[p]
                 /\ resolver'[p].db_errors = 0
                 /\ ~\E r \in short_urls :
                        r.short_code = resolver[p].short_code)
             => /\ resolver'[p].pc = "done"
                /\ resolver'[p].result = "NotFound"
                /\ redis' = redis
                /\ short_urls' = short_urls]_vars

\* ShortCodeNotFound for one code while the other code has a record and a
\* short: entry.
C13_Witness ==
    \E p \in ResolveProcs :
        /\ resolver[p].pc = "done"
        /\ resolver[p].result = "NotFound"
        /\ \E r \in short_urls : r.short_code # resolver[p].short_code
        /\ \E c \in Codes : Present(redis, ShortKey(c))
        /\ ~Present(redis, ShortKey(resolver[p].short_code))

C15_OnlyClassifiedOutcomes ==
    /\ \A p \in ShortenProcs :
          shortener[p].pc = "done" =>
              shortener[p].result \in
                  Codes \cup {"AlreadyExists", "GenerationFailed",
                              "DatabaseUnavailable"}
    /\ \A p \in ResolveProcs :
          resolver[p].pc = "done" =>
              resolver[p].result \in
                  Urls \cup {"NotFound", "DatabaseUnavailable"}

\* C16: a shorten_url that ended with AlreadyExists, GenerationFailed or
\* DatabaseUnavailable committed no insert, and no step of a call that has
\* committed no insert (cache read, existence check, rejected or failed
\* insert) changes the table or the cache.
C16_FailedShortenHasNoEffect ==
    /\ [](\A p \in ShortenProcs :
            (shortener[p].pc = "done"
                /\ shortener[p].result \in {"AlreadyExists", "GenerationFailed",
                                            "DatabaseUnavailable"})
            => shortener[p].short_code = Nil)
    /\ [][\A p \in ShortenProcs :
             (shortener'[p] # shortener[p] /\ shortener'[p].short_code = Nil)
             => (short_urls' = short_urls /\ redis' = redis)]_vars

\* An insert that failed on the last attempt, after a collision, with the
\* other call's record and cache entries in place.
C16_Witness ==
    \E p \in ShortenProcs :
        /\ shortener[p].pc = "done"
        /\ shortener[p].result = "DatabaseUnavailable"
        /\ shortener[p].attempt = MaxRetries
        /\ Cardinality(short_urls) = 1
        /\ Cardinality(DOMAIN redis) = 2

\* C17: increment_visits_bulk is all-or-nothing.  After a call that returned,
\* the table is the table before it with every record whose code is in the
\* mapping grown by exactly that code's delta; after a call that raised, the
\* table is the table before it.
Delta(visit_data, c) ==
    IF c \in DictKeys(visit_data) THEN visit_data[DictGet(visit_data, c)][2]
    ELSE 0

C17_BulkAllOrNothing ==
    direct.op = "increment_visits_bulk" =>
        IF direct.result = "ok"
        THEN direct.after =
                 {Row(r.short_code, r.original_url,
                      r.visits + Delta(direct.visit_data, r.short_code)) :
                      r \in direct.before}
        ELSE direct.after = direct.before

\* A committed call with two deltas, both records grown.
C17_Witness ==
    /\ direct.op = "increment_visits_bulk"
    /\ direct.result = "ok"
    /\ Len(direct.visit_data) = 2
    /\ \A r \in direct.before : r.visits = 0
    /\ Cardinality(direct.after) = 2
    /\ \A r \in direct.after : r.visits > 0

\* C18: codes of the mapping that have no record raise no error and create
\* no record (the codes of the table are the same after a call as before
\* it), while the records of the other codes of that mapping grow by their
\* delta; a call with the empty mapping returns without a connection, also
\* when the pool is exhausted, and changes nothing.
C18_UnknownCodesAndEmptyMapping ==
    direct.op = "increment_visits_bulk" =>
        /\ {r.short_code : r \in direct.after} =
               {r.short_code : r \in direct.before}
        /\ Cardinality(direct.after) = Cardinality(direct.before)
        /\ direct.result = "ok" =>
              \A r \in direct.before :
                  Row(r.short_code, r.original_url,
                      r.visits + Delta(direct.visit_data, r.short_code))
                      \in direct.after
        /\ direct.visit_data = <<>> =>
              /\ direct.result = "ok"
              /\ ~direct.conn
              /\ direct.after = direct.before
        /\ direct.result = "PoolError" => direct.out >= MaxConn
        /\ direct.conn => direct.out < MaxConn

\* A committed call whose mapping names a code with a record and a code
\* without one.
C18_Witness ==
    /\ direct.op = "increment_visits_bulk"
    /\ direct.result = "ok"
    /\ Len(direct.visit_data) = 2
    /\ Cardinality(direct.before) = 1
    /\ \E r \in direct.after : r.visits > 0

\* C19: the step in which decrement_visit_count returns a count (not None)
\* leaves the key absent, so that get_visit_count is 0, when the count is
\* <= 0, and leaves the key holding the count when it is > 0.
C19_DecrementDeletesAtZero ==
    [][(direct'.op = "decrement_visit_count"
           /\ direct' # direct
           /\ direct'.pc = "done"
           /\ ~direct'.none)
       => IF direct'.new_count <= 0
          THEN /\ ~Present(redis', VisitsKey(direct'.code))
               /\ get_visit_count(redis', direct'.code) = 0
          ELSE /\ Present(redis', VisitsKey(direct'.code))
               /\ redis'[VisitsKey(direct'.code)] = direct'.new_count]_vars

\* A decrement of a counter that was never incremented: the count is
\* negative and the key is gone.
C19_Witness ==
    /\ direct.op = "decrement_visit_count"
    /\ direct.pc = "done"
    /\ ~direct.none
    /\ direct.new_count < 0
    /\ total_incs[direct.code] = 0
    /\ ~Present(redis, VisitsKey(direct.code))

\* C20 as claimed: get_visit_count returns 0 exactly when the cache answered
\* and the key is absent, the stored integer when the key is present, and
\* None exactly when the cache call raised.
C20_ZeroExactlyWhenAbsent ==
    direct.op = "get_visit_count" =>
        /\ (~direct.ret.none /\ direct.ret.value = 0)
               <=> (~direct.raised /\ ~direct.present)
        /\ (~direct.raised /\ direct.present) =>
               (~direct.ret.none /\ direct.ret.value = direct.stored)
        /\ direct.ret.none <=> direct.raised

\* C20 as amended: None exactly when the cache call raised; otherwise 0 for
\* an absent key and the stored integer, which can be 0 or less, for a
\* present key.
C20_NoneOnlyOnFailure ==
    direct.op = "get_visit_count" =>
        /\ direct.ret.none <=> direct.raised
        /\ (~direct.raised /\ ~direct.present) => direct.ret.value = 0
        /\ (~direct.raised /\ direct.present) =>
               direct.ret.value = direct.stored

\* A read that returned 0 for a key that is present and holds 0.
C20_Witness ==
    /\ direct.op = "get_visit_count"
    /\ ~direct.ret.none
    /\ direct.ret.value = 0
    /\ direct.present

\* C21: the connections out of the pool are exactly those of the methods that
\* are between getconn and the end of their finally block, after any
\* sequence of returns, unique violations and errors; so with no method in
\* progress none is out.  A method that got no connection (PoolError, a
\* failed connect, the empty bulk call) returns none.
C21_ConnectionsReturned ==
    direct.op = "store_ops" =>
        /\ checked_out = Cardinality({t \in ConnThreads : direct.th[t].holds})
        /\ \A t \in ConnThreads :
              direct.th[t].holds <=> direct.th[t].pc \in {"try", "finally"}
        /\ (\A t \in ConnThreads : direct.th[t].pc \in {"idle", "done"})
               => checked_out = 0

\* No method in progress, after a unique violation, an OperationalError and
\* a call that found the pool exhausted.
C21_Witness ==
    /\ direct.op = "store_ops"
    /\ \A t \in ConnThreads : direct.th[t].pc = "done"
    /\ \E t \in ConnThreads : direct.th[t].exit = "UniqueViolation"
    /\ \E t \in ConnThreads :
          direct.th[t].exit = "OperationalError"
              /\ direct.th[t].name = "increment_visits_bulk"
    /\ \E t \in ConnThreads : direct.th[t].exit = "PoolError"
    /\ checked_out = 0

\* C22: the visits of a record are never negative, a record enters the table
\* with visits 0, and from one state to the next the visits of a record do
\* not shrink; they grow only in the committing bulk write of a flush run,
\* by the delta that run's visit_data holds for the record's code.
C22_VisitsOnlyGrowByFlush ==
    /\ [](\A r \in short_urls : r.visits >= 0)
    /\ [][\A r \in short_urls' :
             (\A q \in short_urls : q.short_code # r.short_code)
             => r.visits = 0]_vars
    /\ [][\A q \in short_urls : \A r \in short_urls' :
             r.short_code = q.short_code =>
                /\ r.visits >= q.visits
                /\ r.visits # q.visits =>
                      \E f \in FlushProcs :
                          /\ flush[f].pc = "bulk"
                          /\ flush'[f].pc = "decr"
                          /\ r.visits = q.visits +
                                 Delta(flush[f].visit_data, q.short_code)]_vars

\* A record that two bulk writes have raised, next to one never visited.
C22_Witness ==
    /\ \E r \in short_urls : r.visits >= 2
    /\ \E r \in short_urls : r.visits = 0
    /\ decr_fails = 0

\* C23: a record stays in the table, under its code and with its URL, in
\* every step; the code of a record never comes to belong to another URL.
C23_RecordsStay ==
    [][\A q \in short_urls :
          /\ \E r \in short_urls' :
                r.short_code = q.short_code /\ r.original_url = q.original_url
          /\ \A r \in short_urls' :
                r.short_code = q.short_code => r.original_url = q.original_url]_vars

\* Two records, one of them raised by a bulk write that did not name the
\* other.
C23_Witness ==
    /\ Cardinality(short_urls) = 2
    /\ \E r \in short_urls : r.visits > 0
    /\ \E r \in short_urls : r.visits = 0
    /\ \E f \in FlushProcs : flush[f].pc = "decr" /\ Len(flush[f].visit_data) = 1

\* C24: a resolve_short_code(c) whose client.get finds the short: entry of c
\* ends in that step with the cached value, having made no Store call and
\* changed nothing; a call that returned a URL it did not get from the Store
\* made no Store call.
C24_CacheHitSkipsStore ==
    /\ [](\A p \in ResolveProcs :
            (resolver[p].pc = "done" /\ resolver[p].result \in Urls
                /\ resolver[p].original = Nil)
            => resolver[p].db_calls = 0)
    /\ [][\A p \in ResolveProcs :
             (resolver[p].pc \in {"idle", "done"}
                 /\ resolver'[p] # resolver[p]
                 /\ ~resolver'[p].cache_failed
                 /\ ShortKey(resolver'[p].short_code) \in DOMAIN redis)
             => /\ resolver'[p].pc = "done"
                /\ resolver'[p].result = redis[ShortKey(resolver'[p].short_code)]
                /\ resolver'[p].db_calls = 0
                /\ short_urls' = short_urls
                /\ redis' = redis]_vars

\* A resolve answered from the cache with the URL the code was returned for.
C24_Witness ==
    \E p \in ResolveProcs :
        /\ resolver[p].pc = "done"
        /\ resolver[p].db_calls = 0
        /\ resolver[p].known = {resolver[p].result}
        /\ ~resolver[p].cache_failed

\* C25: no step of resolve_short_code changes the table, on any of its
\* paths; with no flush job running, the visits of every record stay 0.
C25_ResolveLeavesStore ==
    /\ [](\A r \in short_urls : r.visits = 0)
    /\ [][\A p \in ResolveProcs :
             resolver'[p] # resolver[p] => short_urls' = short_urls]_vars

\* A resolve answered by the Store with the cache answering (the entry had
\* expired), the record untouched.
C25_Witness ==
    \E p \in ResolveProcs :
        /\ resolver[p].pc = "done"
        /\ resolver[p].db_calls = 1
        /\ resolver[p].result \in Urls
        /\ ~resolver[p].cache_failed
        /\ \E r \in short_urls :
              /\ r.short_code = resolver[p].short_code
              /\ r.original_url = resolver[p].result
              /\ r.visits = 0

C28_StopsAtFirstInsert ==
    /\ [](\A p \in ShortenProcs :
            /\ shortener[p].attempt <= MaxRetries
            /\ shortener[p].db_calls <= 1 + MaxRetries
            /\ (shortener[p].pc \in {"set_short", "set_url"}
                   \/ (shortener[p].pc = "done" /\ shortener[p].result \in Codes))
               => /\ shortener[p].short_code \in Codes
                  /\ shortener[p].db_calls = 1 + shortener[p].attempt
                  /\ shortener[p].db_errors = 0
                  /\ \E r \in short_urls :
                        /\ r.short_code = shortener[p].short_code
                        /\ r.original_url = shortener[p].url
                  /\ shortener[p].pc = "done" =>
                        shortener[p].result = shortener[p].short_code)
    /\ [][\A p \in ShortenProcs :
             shortener[p].pc \in {"set_short", "set_url"}
             => shortener'[p].db_calls = shortener[p].db_calls]_vars

\* A call that returned the code of its last allowed attempt.
C28_Witness ==
    \E p \in ShortenProcs :
        /\ shortener[p].pc = "done"
        /\ shortener[p].result \in Codes
        /\ shortener[p].attempt = MaxRetries

\* C29: the first step of shorten_url(u) ends the call with AlreadyExists
\* and no Store call when client.get finds the url: entry of u; when the
\* entry is absent or client.get raises, the call goes on to the Store's
\* existence check.
C29_UrlCacheHit ==
    [][\A p \in ShortenProcs :
          (shortener[p].pc \in {"idle", "done"} /\ shortener'[p] # shortener[p])
          => IF ~shortener'[p].cache_failed
                    /\ UrlKey(shortener'[p].url) \in DOMAIN redis
             THEN /\ shortener'[p].pc = "done"
                  /\ shortener'[p].result = "AlreadyExists"
                  /\ shortener'[p].db_calls = 0
                  /\ short_urls' = short_urls
             ELSE /\ shortener'[p].pc = "url_exists"
                  /\ shortener'[p].db_calls = 0]_vars

\* One call rejected from the cache, and one that could not read the cache
\* rejected by the Store.
C29_Witness ==
    /\ \E p \in ShortenProcs :
          /\ shortener[p].pc = "done"
          /\ shortener[p].result = "AlreadyExists"
          /\ shortener[p].db_calls = 0
    /\ \E p \in ShortenProcs :
          /\ shortener[p].pc = "done"
          /\ shortener[p].result = "AlreadyExists"
          /\ shortener[p].db_calls = 1
          /\ shortener[p].cache_failed

\* The run has committed its bulk write, with count n for code c in it.
Applied(f, c, n) ==
    /\ flush[f].pc \in {"decr", "delete", "done"}
    /\ flush[f].bulk_calls # <<>>
    /\ ~flush[f].aborted
    /\ c \in DictKeys(flush[f].visit_data)
    /\ flush[f].visit_data[DictGet(flush[f].visit_data, c)][2] = n

\* C27: when two overlapping runs have read the same value n of the counter
\* of c, with no visit of c between the two reads, and both have committed
\* their bulk write, the record of c has received n twice; there is such an
\* interleaving in which its visits exceed the visits made.
C27_BothRunsApply ==
    \A c \in Codes : \A n \in 1..MaxIncrements :
        (/\ Applied("f1", c, n)
         /\ Applied("f2", c, n)
         /\ flush["f1"].incs_at_read[c] = flush["f2"].incs_at_read[c])
        => \E r \in short_urls : r.short_code = c /\ r.visits >= 2 * n

\* Both runs read the same value, both wrote it, every cache call of both
\* succeeded, and the record counts more visits than were made.
C27_Witness ==
    \E c \in Codes : \E n \in 1..MaxIncrements :
        /\ Applied("f1", c, n)
        /\ Applied("f2", c, n)
        /\ <<c, n>> \in flush["f1"].reads
        /\ <<c, n>> \in flush["f2"].reads
        /\ flush["f1"].all_ok
        /\ flush["f2"].all_ok
        /\ flush["f1"].pc = "done"
        /\ flush["f2"].pc = "done"
        /\ \E r \in short_urls : r.short_code = c /\ r.visits > total_incs[c]

\* The cache holds short:c -> u and url:u -> c.
BothDirections(kv, c, u) ==
    /\ Present(kv, ShortKey(c))
    /\ kv[ShortKey(c)] = u
    /\ Present(kv, UrlKey(u))
    /\ kv[UrlKey(u)] = c

\* C30: when no cache call of it failed, a shorten_url(u) that returns c
\* leaves short:c -> u and url:u -> c in the cache as it returns, and so does
\* a resolve_short_code(c) that returns u from the Store; a resolve of c that
\* finds these entries is answered with u from the cache.
C30_CacheWarmAfterReturn ==
    [][/\ \A p \in ShortenProcs :
             (shortener[p].pc = "set_url" /\ shortener'[p].pc = "done"
                 /\ ~shortener'[p].cache_failed)
             => BothDirections(redis', shortener'[p].result, shortener'[p].url)
       /\ \A p \in ResolveProcs :
             (resolver[p].pc = "set_url" /\ resolver'[p].pc = "done"
                 /\ ~resolver'[p].cache_failed)
             => BothDirections(redis', resolver'[p].short_code, resolver'[p].result)
       /\ \A p \in ResolveProcs : \A u \in Urls :
             (resolver[p].pc \in {"idle", "done"}
                 /\ resolver'[p] # resolver[p]
                 /\ ~resolver'[p].cache_failed
                 /\ BothDirections(redis, resolver'[p].short_code, u))
             => /\ resolver'[p].pc = "done"
                /\ resolver'[p].result = u
                /\ resolver'[p].db_calls = 0]_vars

\* A shorten_url that returned the code with the cache answering, and a
\* later resolve of that code answered from the cache, both entries still
\* held.
C30_Witness ==
    \E p \in ShortenProcs : \E q \in ResolveProcs :
        /\ shortener[p].pc = "done"
        /\ shortener[p].result \in Codes
        /\ ~shortener[p].cache_failed
        /\ resolver[q].pc = "done"
        /\ resolver[q].short_code = shortener[p].result
        /\ resolver[q].result = shortener[p].url
        /\ resolver[q].db_calls = 0
        /\ resolver[q].known = {shortener[p].url}
        /\ BothDirections(redis, shortener[p].result, shortener[p].url)

\* C31: every short:c -> u entry and every url:u -> c entry of the cache is
\* the mapping of a record (c, u) of the table, in every state of concurrent
\* shorten_url and resolve_short_code calls with entries expiring.
C31_CacheCoherence ==
    /\ \A c \in Codes :
          Present(redis, ShortKey(c)) =>
              \E r \in short_urls :
                  r.short_code = c /\ r.original_url = redis[ShortKey(c)]
    /\ \A u \in Urls :
          Present(redis, UrlKey(u)) =>
              \E r \in short_urls :
                  r.short_code = redis[UrlKey(u)] /\ r.original_url = u

\* Both directions cached by a shorten_url and by a resolve_short_code that
\* went to the Store, for two different records.
C31_Witness ==
    /\ \E p \in ShortenProcs : \E q \in ResolveProcs :
          /\ shortener[p].pc = "done"
          /\ shortener[p].result \in Codes
          /\ resolver[q].pc = "done"
          /\ resolver[q].db_calls = 1
          /\ resolver[q].result \in Urls
          /\ resolver[q].short_code # shortener[p].result
          /\ BothDirections(redis, shortener[p].result, shortener[p].url)
          /\ BothDirections(redis, resolver[q].short_code, resolver[q].result)

\* The run of f has ended, every call of it succeeded, and no increment was
\* made since it started.
QuietRun(f) ==
    /\ flush[f].pc = "done"
    /\ flush[f].all_ok
    /\ direct.op = "flush_run"
    /\ direct.total = total_incs

\* C32, as stated: after a run in which every call succeeded and during
\* which no increment arrived, every record's visits equal the increments
\* ever made to its code's counter and the counter key is absent.
C32_ConservationAtQuiescence ==
    \A f \in FlushProcs :
        QuietRun(f) =>
            \A r \in short_urls :
                /\ r.visits = total_incs[r.short_code]
                /\ ~Present(redis, VisitsKey(r.short_code))

\* C32, amended: after such a run, for every code with a record when the
\* run started, the record's visits are what they were before the run plus
\* what the counter held before the run, and the counter reads 0, its key
\* absent if it held more than 0.
C32_RunMovesCounterToStore ==
    \A f \in FlushProcs :
        QuietRun(f) =>
            \A r \in short_urls :
                LET c == r.short_code
                IN  direct.visits[c] >= 0 =>
                        /\ r.visits = direct.visits[c] + direct.counter[c]
                        /\ get_visit_count(redis, c) = 0
                        /\ direct.counter[c] > 0 => ~Present(redis, VisitsKey(c))

\* Such a run has moved a counter to its record, and the record then holds
\* every increment made.
C32_Witness ==
    \E f \in FlushProcs : \E r \in short_urls :
        /\ QuietRun(f)
        /\ direct.visits[r.short_code] >= 0
        /\ direct.counter[r.short_code] > 0
        /\ flush[f].decrs # <<>>
        /\ r.visits = total_incs[r.short_code]
        /\ ~Present(redis, VisitsKey(r.short_code))

\* C33: in a run, every decrement_visit_count(c, n) comes after the run's one
\* increment_visits_bulk call, which committed and whose visit_data held
\* c with n, and that after a get_visit_count(c) of the run that returned n;
\* a run reaches its decrements only from the committed bulk write, and its
\* reads are over by then.
C33_ReadWriteDecrement ==
    /\ [](\A f \in FlushProcs :
            /\ Len(flush[f].bulk_calls) <= 1
            /\ flush[f].pc \in {"decr", "delete"} =>
                  flush[f].bulk_calls # <<>> /\ ~flush[f].aborted
            /\ \A i \in 1..Len(flush[f].decrs) :
                  /\ flush[f].bulk_calls # <<>>
                  /\ ~flush[f].aborted
                  /\ flush[f].decrs[i] \in SeqRange(flush[f].bulk_calls[1])
                  /\ flush[f].decrs[i] \in flush[f].reads
                  /\ flush[f].decrs[i][2] > 0)
    /\ [][\A f \in FlushProcs :
             /\ (flush[f].pc = "read" /\ flush'[f].pc # "read")
                => flush'[f].pc \in {"bulk", "done"}
             /\ (flush[f].pc = "bulk" /\ flush'[f].pc # "bulk")
                => flush'[f].pc \in {"decr", "done"}
             /\ flush[f].pc \in {"bulk", "decr", "delete"}
                => flush'[f].reads = flush[f].reads]_vars

\* A run that read two counters, wrote both and decremented both.
C33_Witness ==
    \E f \in FlushProcs :
        /\ flush[f].pc = "done"
        /\ Len(flush[f].decrs) = 2
        /\ Len(flush[f].bulk_calls) = 1
        /\ Cardinality(flush[f].reads) >= 2

\* C34: a run whose get_all_visit_keys returns no keys (none exist, or a scan
\* call failed) ends there, and a run whose visit_data is empty after the
\* reads ends there: such a run makes no increment_visits_bulk call and no
\* decrement, and none of its steps changes the table or the cache.
C34_EmptyRunIsNoOp ==
    /\ [](\A f \in FlushProcs :
            (flush[f].bulk_calls # <<>> \/ flush[f].decrs # <<>>
                \/ flush[f].pc \in {"bulk", "decr", "delete"})
            => flush[f].keys # <<>> /\ flush[f].visit_data # <<>>)
    /\ [][\A f \in FlushProcs :
             /\ (flush[f].pc \in {"idle", "done", "scan"}
                    /\ flush'[f] # flush[f]
                    /\ flush'[f].pc # "scan"
                    /\ flush'[f].keys = <<>>)
                => /\ flush'[f].pc = "done"
                   /\ short_urls' = short_urls
                   /\ redis' = redis
             /\ (flush[f].pc = "read"
                    /\ flush'[f].pc # "read"
                    /\ flush'[f].visit_data = <<>>)
                => /\ flush'[f].pc = "done"
                   /\ short_urls' = short_urls
                   /\ redis' = redis
             /\ (flush[f].pc \in {"idle", "done", "scan", "read"}
                    /\ flush'[f] # flush[f])
                => short_urls' = short_urls /\ redis' = redis]_vars

\* A run that found keys but nothing to flush (a counter left at 0, or a
\* failed read) has ended with the counter key still there.
C34_Witness ==
    \E f \in FlushProcs :
        /\ flush[f].pc = "done"
        /\ flush[f].keys # <<>>
        /\ flush[f].visit_data = <<>>
        /\ flush[f].bulk_calls = <<>>
        /\ flush[f].decrs = <<>>
        /\ \E c \in Codes : Present(redis, VisitsKey(c))

\* The codes of a sequence of (code, count) pairs.
CodesOf(items) == {items[n][1] : n \in 1..Len(items)}

\* C35: a code whose get_visit_count returned None in a run is not in the
\* run's visit_data, not in its bulk write and not decremented, and no step
\* of the run changes its counter; the run goes on to write and decrement
\* the codes it did read.
C35_FailedReadSkipsCode ==
    /\ [](\A f \in FlushProcs : \A c \in flush[f].read_failed :
            /\ c \notin DictKeys(flush[f].visit_data)
            /\ c \notin CodesOf(flush[f].decrs)
            /\ \A n \in 1..Len(flush[f].bulk_calls) :
                  c \notin DictKeys(flush[f].bulk_calls[n]))
    /\ [][\A f \in FlushProcs :
             /\ \A c \in flush[f].read_failed \cap flush'[f].read_failed :
                   flush'[f] # flush[f] =>
                       /\ Present(redis', VisitsKey(c)) = Present(redis, VisitsKey(c))
                       /\ get_visit_count(redis', c) = get_visit_count(redis, c)
             /\ (flush[f].pc = "read" /\ flush'[f].pc # "read"
                    /\ flush'[f].visit_data # <<>>)
                => flush'[f].pc = "bulk"]_vars

\* A run in which one read failed and another code was written and
\* decremented has ended with the skipped counter still in the cache.
C35_Witness ==
    \E f \in FlushProcs : \E c \in Codes :
        /\ flush[f].pc = "done"
        /\ c \in flush[f].read_failed
        /\ flush[f].decrs # <<>>
        /\ ~flush[f].aborted
        /\ Present(redis, VisitsKey(c))
        /\ get_visit_count(redis, c) > 0
        /\ \E d \in CodesOf(flush[f].decrs) : ~Present(redis, VisitsKey(d))

\* A step of the run of f in which decrement_visit_count returns None: a
\* step of its decrements that leaves the cache as it is (a DECRBY by a
\* count > 0 or a DEL of the key that took effect changes it).
ReturnsNone(f) ==
    /\ flush[f].pc \in {"decr", "delete"}
    /\ flush'[f] # flush[f]
    /\ redis' = redis

\* The counter of the item being decremented as it was when the call began:
\* the count read plus the increments made since that read.
BeforeCall(f) ==
    LET item == flush[f].visit_data[flush[f].j]
    IN  item[2] + total_incs[item[1]] - flush[f].incs_at_read[item[1]]

\* C36, as stated: when decrement_visit_count returns None the counter is
\* as it was before the call, the run is not aborted and goes on to the next
\* code.
C36_FailedDecrementChangesNothing ==
    [][\A f \in FlushProcs :
          ReturnsNone(f) =>
              /\ get_visit_count(redis', flush[f].visit_data[flush[f].j][1])
                     = BeforeCall(f)
              /\ ~flush'[f].aborted
              /\ flush'[f].j = flush[f].j + 1]_vars

\* C36, amended: when decrement_visit_count returns None the counter is as
\* it was before the call if the DECRBY failed, and is decremented by the
\* amount, its key left in place, if the DECRBY succeeded and the DEL
\* failed; either way the run is not aborted, goes on to the next code, and
\* ends having called decrement_visit_count for every code of visit_data.
C36_FailedDecrementGoesOn ==
    /\ [](\A f \in FlushProcs :
            (flush[f].pc = "done" /\ flush[f].bulk_calls # <<>>
                /\ ~flush[f].aborted)
            => flush[f].decrs = flush[f].visit_data)
    /\ [][\A f \in FlushProcs :
             ReturnsNone(f) =>
                 LET item == flush[f].visit_data[flush[f].j]
                 IN  /\ IF flush[f].pc = "decr"
                        THEN get_visit_count(redis', item[1]) = BeforeCall(f)
                        ELSE /\ get_visit_count(redis', item[1])
                                    = BeforeCall(f) - item[2]
                             /\ Present(redis', VisitsKey(item[1]))
                     /\ ~flush'[f].aborted
                     /\ flush'[f].j = flush[f].j + 1
                     /\ flush'[f].pc =
                            IF flush[f].j < Len(flush[f].visit_data)
                            THEN "decr" ELSE "done"]_vars

\* A run whose first decrement failed at DECRBY has decremented its second
\* code and ended: the first counter is as it was, the second is gone.
C36_Witness ==
    \E f \in FlushProcs :
        /\ flush[f].pc = "done"
        /\ Len(flush[f].visit_data) = 2
        /\ flush[f].decrs = flush[f].visit_data
        /\ decr_fails = 1
        /\ get_visit_count(redis, flush[f].visit_data[1][1]) = flush[f].visit_data[1][2]
        /\ ~Present(redis, VisitsKey(flush[f].visit_data[2][1]))

\* The code has a record.
Recorded(rows, c) == \E r \in rows : r.short_code = c

\* C37: a counter read with a count > 0 enters visit_data whether or not
\* its code has a record; the committed bulk write creates no record for a
\* code without one and changes nothing when no code of visit_data has a
\* record, and the run goes on to decrement every code of visit_data, so
\* that the counter of a code without a record is taken out of the cache.
C37_CounterWithoutRecord ==
    [][\A f \in FlushProcs :
          /\ \A c \in Codes : \A n \in 1..MaxIncrements :
                (flush[f].pc = "read"
                    /\ <<c, n>> \in flush'[f].reads \ flush[f].reads)
                => /\ c \in DictKeys(flush'[f].visit_data)
                   /\ flush'[f].visit_data[DictGet(flush'[f].visit_data, c)][2] = n
          /\ (flush[f].pc = "bulk" /\ flush'[f].pc = "decr")
             => /\ \A c \in DictKeys(flush[f].visit_data) :
                      ~Recorded(short_urls, c) => ~Recorded(short_urls', c)
                /\ (\A c \in DictKeys(flush[f].visit_data) :
                       ~Recorded(short_urls, c))
                   => short_urls' = short_urls
                /\ flush'[f].j = 1
          /\ (flush[f].pc = "decr" /\ flush'[f] # flush[f] /\ redis' # redis)
             => LET item == flush[f].visit_data[flush[f].j]
                IN  get_visit_count(redis', item[1])
                        = get_visit_count(redis, item[1]) - item[2]]_vars

\* A run in which every call succeeded has taken the counter of a code
\* without a record out of the cache: the increments made are in neither.
C37_Witness ==
    \E f \in FlushProcs : \E c \in Codes :
        /\ flush[f].pc = "done"
        /\ flush[f].all_ok
        /\ c \in CodesOf(flush[f].decrs)
        /\ ~Recorded(short_urls, c)
        /\ ~Present(redis, VisitsKey(c))
        /\ total_incs[c] > 0

\* The list is the first elements of the other, in the same order.
IsPrefix(s, t) == Len(s) <= Len(t) /\ SubSeq(t, 1, Len(s)) = s

\* C38: each client.scan call of get_all_visit_keys that answers adds its
\* page after the pages already held, and the loop goes on exactly while the
\* cursor returned is not 0; a call that raises RedisError, also after pages
\* were read, makes the list [] and the run, with no keys, ends.
C38_ScanPagesOrEmpty ==
    [][\A f \in FlushProcs :
          (flush[f].pc \in {"idle", "done", "scan"} /\ flush'[f] # flush[f])
          => LET held == IF flush[f].pc = "scan" THEN flush[f].keys ELSE <<>>
             IN  IF ~flush'[f].all_ok
                 THEN /\ flush'[f].keys = <<>>
                      /\ flush'[f].pc = "done"
                      /\ flush'[f].visit_data = <<>>
                 ELSE /\ IsPrefix(held, flush'[f].keys)
                      /\ flush'[f].pc = "scan" <=> flush'[f].cursor # 0
                      /\ flush'[f].pc \in {"scan", "read", "done"}
                      /\ flush'[f].pc = "done" => flush'[f].keys = <<>>]_vars

\* A scan failed after a page had been read: no keys, with a counter in the
\* cache.
C38_Witness ==
    \E f \in FlushProcs :
        /\ flush[f].pc = "done"
        /\ ~flush[f].all_ok
        /\ flush[f].cursor > 0
        /\ flush[f].keys = <<>>
        /\ flush[f].reads = {}
        /\ \E c \in Codes : Present(redis, VisitsKey(c))

\* C39: the step of a shorten_url in which its INSERT is committed adds to
\* the table the one record of its code and URL with visits 0, the code not
\* recorded before, and keeps every other record; no other step of a
\* shorten_url changes the table, and the call returns the code of that
\* record.
C39_ShortenAddsOneRecord ==
    /\ [](\A p \in ShortenProcs :
            (shortener[p].pc = "done" /\ shortener[p].result \in Codes)
            => \E r \in short_urls :
                  /\ r.short_code = shortener[p].result
                  /\ r.original_url = shortener[p].url)
    /\ [][\A p \in ShortenProcs :
             shortener'[p] # shortener[p] =>
                 IF shortener[p].pc = "insert" /\ shortener'[p].pc = "set_short"
                 THEN /\ ~Recorded(short_urls, shortener'[p].short_code)
                      /\ short_urls' = short_urls \cup
                            {Row(shortener'[p].short_code, shortener'[p].url, 0)}
                 ELSE short_urls' = short_urls]_vars

\* Two calls have each returned the code of the record they added.
C39_Witness ==
    /\ Cardinality(short_urls) = 2
    /\ \A p \in ShortenProcs :
          /\ shortener[p].pc = "done"
          /\ shortener[p].result \in Codes
          /\ Row(shortener[p].result, shortener[p].url, 0) \in short_urls
    /\ \E p, q \in ShortenProcs : shortener[p].result # shortener[q].result
====
